---- MODULE Spec2Model ----
(***************************************************************************)
(* Variant-aware Schedule schema of hadronomy/scheduler: the cross-field   *)
(* validator (Schedule.superRefine) run on shape-valid Schedule documents  *)
(* (Spec), the primitive date and time schemas (SpecPrimitive), the        *)
(* occurrence expansion of a validated Schedule (SpecExpand) and the OAuth *)
(* callback the program waits for before it extracts (SpecAuth).           *)
(*                                                                         *)
(* Strings that the code compares with < and <= (dates, times, local       *)
(* datetimes) are sequences of UTF-16 code units; the comparison is the    *)
(* lexical one JavaScript applies to strings.  Strings that the code only  *)
(* tests for truthiness, equality and property lookup (seriesId, variant   *)
(* keys) are TLA+ strings.  An optional field is <<>> when absent and      *)
(* <<v>> when present.                                                     *)
(***************************************************************************)
EXTENDS Integers, Sequences, FiniteSets, TLC

VARIABLES
    pc,        \* "idle" | "validated" | "used" | "failed": position of the caller
    doc,       \* the document given to the schema (<<>> before any)
    val,       \* the Schedule value handed to superRefine, as the pass leaves it
    ctx,       \* ctx.addIssue accumulator of the running/finished pass
    outcome,   \* what the caller of the validator observes
    rewrote,   \* <<>>, or <<i>> when val is an accepted Schedule with item i's variant.key rewritten
    probe,     \* a string (or pair of strings) run through a primitive schema, with the verdict
    expansion, \* result of expanding val: no result yet, an instance list, or an error
    prior,     \* <<>>, or <<e>>: the expansion before one date of one item was excluded or cancelled
    deferred,  \* the authorization-code Deferred: pending, succeeded with a code, or failed with an error
    program,   \* where the program is around Deferred.await, and the token it got
    inflight,  \* callback requests received by the server and not yet handled
    reply,     \* the response to the callback request handled last
    twin       \* deferred and reply of a second server that gets the same requests, each with another state parameter

validatorVars == <<pc, doc, val, ctx, outcome, rewrote>>
authVars == <<deferred, program, inflight, reply, twin>>
vars == <<pc, doc, val, ctx, outcome, rewrote, probe, expansion, prior,
          deferred, program, inflight, reply, twin>>

(***************************************************************************)
(* Bounds of the model.                                                    *)
(***************************************************************************)
MaxItems == 2

(***************************************************************************)
(* Optional values.                                                        *)
(***************************************************************************)
None == <<>>
Some(v) == <<v>>
IsSome(o) == Len(o) = 1
Get(o) == o[1]

(***************************************************************************)
(* String literals as code-unit sequences.                                 *)
(***************************************************************************)
Chars2(n) == <<48 + (n \div 10), 48 + (n % 10)>>
Chars4(n) == Chars2(n \div 100) \o Chars2(n % 100)
DateStr(y, m, d) == Chars4(y) \o <<45>> \o Chars2(m) \o <<45>> \o Chars2(d)
TimeStr(h, m, s) == Chars2(h) \o <<58>> \o Chars2(m) \o <<58>> \o Chars2(s)
DateTimeStr(dt, tm) == dt \o <<84>> \o tm

\* JavaScript's a < b on two strings: first differing code unit decides,
\* a proper prefix is smaller.
RECURSIVE StrLess(_, _)
StrLess(a, b) ==
    IF b = <<>> THEN FALSE
    ELSE IF a = <<>> THEN TRUE
    ELSE IF Head(a) # Head(b) THEN Head(a) < Head(b)
    ELSE StrLess(Tail(a), Tail(b))

StrLessEq(a, b) == a = b \/ StrLess(a, b)

\* JavaScript truthiness of a string / of an optional object.
TruthyStr(o) == IsSome(o) /\ Get(o) # ""
TruthyObj(o) == IsSome(o)

(***************************************************************************)
(* Issues and paths.  A path is the array handed to ctx.addIssue; item     *)
(* indices are those of val.items.entries(), i.e. they start at 0.         *)
(***************************************************************************)
Issue(path, message) == [path |-> path, message |-> message]

MsgTerm == "termEnd must be on or after termStart"
MsgPair == "If seriesId is provided, variant must be provided (and vice versa)"
MsgSeries == "seriesId not found in schedule.series"
MsgVariant == "variant.key must be one of series[seriesId].variants for this series"
MsgEndTime == "endTime must be strictly after startTime"
MsgEndOn == "endOn must be on or after startOn"
MsgByWeekday == "Weekly recurrence must specify non-empty byWeekday"
MsgEnd == "end must be strictly after start"

(***************************************************************************)
(* val.series[key]: the registry is a plain object, so a key that is not   *)
(* an own property still resolves when Object.prototype has it.            *)
(***************************************************************************)
ObjectPrototypeKeys ==
    {"constructor", "toString", "toLocaleString", "valueOf", "hasOwnProperty",
     "isPrototypeOf", "propertyIsEnumerable", "__proto__"}

SeriesLookup(series, key) ==
    IF key \in DOMAIN series THEN [kind |-> "entry", variants |-> series[key].variants]
    ELSE IF key \in ObjectPrototypeKeys THEN [kind |-> "inherited"]
    ELSE [kind |-> "undefined"]

\* Array.prototype.includes on an array of strings
Includes(arr, x) == \E k \in 1..Len(arr) : arr[k] = x

(***************************************************************************)
(* Schedule.superRefine, check by check.  Every check returns the issues   *)
(* it adds, in order; the binding check also tells whether it threw.       *)
(***************************************************************************)
TermBoundIssues(v) ==
    IF TruthyStr(v.termStart) /\ TruthyStr(v.termEnd)
       /\ StrLess(Get(v.termEnd), Get(v.termStart))
    THEN <<Issue(<<"termEnd">>, MsgTerm)>>
    ELSE <<>>

HasSeries(item) == TruthyStr(item.seriesId)
HasVariant(item) == TruthyObj(item.variant)

PairingIssues(i, item) ==
    IF HasSeries(item) # HasVariant(item)
    THEN <<Issue(<<"items", i, IF HasSeries(item) THEN "variant" ELSE "seriesId">>, MsgPair)>>
    ELSE <<>>

\* The bound check without its variant.key branch.
BoundIssuesSeriesOnly(v, i, item) ==
    IF HasSeries(item) /\ HasVariant(item)
    THEN LET seriesEntry == SeriesLookup(v.series, Get(item.seriesId)) IN
         IF seriesEntry.kind = "undefined"
         THEN [issues |-> <<Issue(<<"items", i, "seriesId">>, MsgSeries)>>, threw |-> FALSE]
         ELSE [issues |-> <<>>, threw |-> FALSE]
    ELSE [issues |-> <<>>, threw |-> FALSE]

\* The bound check reporting the variant key of an unknown series as well.
BoundIssuesKeyAlways(v, i, item) ==
    IF HasSeries(item) /\ HasVariant(item)
    THEN LET seriesEntry == SeriesLookup(v.series, Get(item.seriesId)) IN
         IF seriesEntry.kind = "undefined"
         THEN [issues |-> <<Issue(<<"items", i, "seriesId">>, MsgSeries),
                            Issue(<<"items", i, "variant", "key">>, MsgVariant)>>,
               threw |-> FALSE]
         ELSE IF seriesEntry.kind = "inherited"
         THEN [issues |-> <<>>, threw |-> TRUE]
         ELSE IF ~Includes(seriesEntry.variants, Get(item.variant).key)
         THEN [issues |-> <<Issue(<<"items", i, "variant", "key">>, MsgVariant)>>, threw |-> FALSE]
         ELSE [issues |-> <<>>, threw |-> FALSE]
    ELSE [issues |-> <<>>, threw |-> FALSE]

\* [issues, threw]: reading .variants of an inherited property gives
\* undefined, and undefined.includes(...) is a TypeError.
BoundIssues(v, i, item) ==
    IF HasSeries(item) /\ HasVariant(item)
    THEN LET seriesEntry == SeriesLookup(v.series, Get(item.seriesId)) IN
         IF seriesEntry.kind = "undefined"
         THEN [issues |-> <<Issue(<<"items", i, "seriesId">>, MsgSeries)>>, threw |-> FALSE]
         ELSE IF seriesEntry.kind = "inherited"
         THEN [issues |-> <<>>, threw |-> TRUE]
         ELSE IF ~Includes(seriesEntry.variants, Get(item.variant).key)
         THEN [issues |-> <<Issue(<<"items", i, "variant", "key">>, MsgVariant)>>, threw |-> FALSE]
         ELSE [issues |-> <<>>, threw |-> FALSE]
    ELSE [issues |-> <<>>, threw |-> FALSE]

EndTimeIssues(i, item) ==
    IF StrLessEq(item.endTime, item.startTime)
    THEN <<Issue(<<"items", i, "endTime">>, MsgEndTime)>>
    ELSE <<>>

EndOnIssues(i, item) ==
    IF TruthyStr(item.startOn) /\ TruthyStr(item.endOn)
       /\ StrLess(Get(item.endOn), Get(item.startOn))
    THEN <<Issue(<<"items", i, "endOn">>, MsgEndOn)>>
    ELSE <<>>

ByWeekdayIssues(i, item) ==
    IF item.on.freq = "weekly"
       /\ (~IsSome(item.on.byWeekday) \/ Len(Get(item.on.byWeekday)) = 0)
    THEN <<Issue(<<"items", i, "on", "byWeekday">>, MsgByWeekday)>>
    ELSE <<>>

\* The recurring checks with the date-window check moved first.
RecurringIssuesEndOnFirst(i, item) ==
    EndOnIssues(i, item) \o EndTimeIssues(i, item) \o ByWeekdayIssues(i, item)

RecurringIssues(i, item) ==
    EndTimeIssues(i, item) \o EndOnIssues(i, item) \o ByWeekdayIssues(i, item)

SingleIssues(i, item) ==
    IF StrLessEq(item.end, item.start)
    THEN <<Issue(<<"items", i, "end">>, MsgEnd)>>
    ELSE <<>>

KindIssues(i, item) ==
    IF item.kind = "recurring" THEN RecurringIssues(i, item)
    ELSE IF item.kind = "single" THEN SingleIssues(i, item)
    ELSE <<>>

\* One iteration of the for loop over val.items.entries().
ItemIssues(v, i, item) ==
    LET pair == PairingIssues(i, item)
        bound == BoundIssues(v, i, item)
    IN IF bound.threw
       THEN [issues |-> pair, threw |-> TRUE]
       ELSE [issues |-> pair \o bound.issues \o KindIssues(i, item), threw |-> FALSE]

\* The loop from (1-based) position k on, with acc the accumulator so far.
RECURSIVE RefineItems(_, _, _)
RefineItems(v, k, acc) ==
    IF k > Len(v.items) THEN [ctx |-> acc, threw |-> FALSE]
    ELSE LET r == ItemIssues(v, k - 1, v.items[k]) IN
         IF r.threw THEN [ctx |-> acc \o r.issues, threw |-> TRUE]
         ELSE RefineItems(v, k + 1, acc \o r.issues)

SuperRefine(v) == RefineItems(v, 1, TermBoundIssues(v))

\* A pass that repairs inverted term bounds in place.
RefinedValueClamped(v) ==
    IF TermBoundIssues(v) # <<>> THEN [v EXCEPT !.termEnd = v.termStart] ELSE v

\* val after the pass: the refinement only reads val; its one effect is
\* ctx.addIssue.
RefinedValue(v) == v

\* What the caller of the schema observes: an exception escaping the
\* refinement carries no issue list.
Outcome(r) ==
    IF r.threw THEN [status |-> "threw", issues |-> <<>>]
    ELSE IF r.ctx = <<>> THEN [status |-> "accepted", issues |-> <<>>]
    ELSE [status |-> "rejected", issues |-> r.ctx]

(***************************************************************************)
(* Shape-valid Schedule documents the model validates.  Every value below  *)
(* passes the object schema (regexes, enums, nonempty(), min(1)), so the   *)
(* cross-field refinement is what decides.                                 *)
(***************************************************************************)
Day1 == DateStr(2025, 9, 9)
Day2 == DateStr(2025, 9, 10)
Day3 == DateStr(2025, 12, 19)

Time1 == TimeStr(8, 30, 0)
Time2 == TimeStr(9, 0, 0)
Time3 == TimeStr(10, 30, 0)

EmptyRegistry == [k \in {} |-> [title |-> "", variants |-> <<>>]]
Entry(title, variants) == [title |-> title, variants |-> variants]
Registries ==
    { EmptyRegistry,
      [k \in {"algebra", ""} |->
          IF k = "algebra" THEN Entry("Algebra", <<"PE101", "PA101">>)
          ELSE Entry("Untitled", <<"PE101">>)] }

SeriesIdOpts == {None, Some(""), Some("algebra"), Some("physics"), Some("constructor")}
VariantOpts == {None, Some([key |-> "PE101"]), Some([key |-> "TU101"])}

Rule(freq, byWeekday) == [freq |-> freq, byWeekday |-> byWeekday]
Rules == {Rule("weekly", Some(<<"MO", "WE">>)), Rule("weekly", None), Rule("daily", None)}

Single(seriesId, variant, start, end) ==
    [kind |-> "single", seriesId |-> seriesId, variant |-> variant,
     start |-> start, end |-> end]

Recurring(seriesId, variant, on, startTime, endTime, startOn, endOn) ==
    [kind |-> "recurring", seriesId |-> seriesId, variant |-> variant, on |-> on,
     startTime |-> startTime, endTime |-> endTime, startOn |-> startOn, endOn |-> endOn]

\* single items: every binding with a well-ordered slot, the unbound item
\* whose end is before, or equal to, its start, and an item that breaks both
\* the binding and the order
SingleItems ==
    { Single(s, w, DateTimeStr(Day1, Time2), DateTimeStr(Day1, Time3)) :
        s \in SeriesIdOpts, w \in VariantOpts }
    \cup { Single(None, None, DateTimeStr(Day2, Time2), e) :
        e \in {DateTimeStr(Day1, Time3), DateTimeStr(Day2, Time2)} }
    \cup { Single(Some("physics"), Some([key |-> "PE101"]),
                  DateTimeStr(Day2, Time2), DateTimeStr(Day2, Time2)) }

\* recurring items: the unbound item with every time order, date window and
\* rule taken one at a time, and bound items that break every check at once
WeeklyMoWe == Rule("weekly", Some(<<"MO", "WE">>))
RecurringItems ==
    { Recurring(None, None, WeeklyMoWe, Time2, t, None, None) :
        t \in {Time1, Time2, Time3} }
    \cup { Recurring(None, None, WeeklyMoWe, Time2, Time3, a, b) :
        a \in {None, Some(Day2)}, b \in {None, Some(Day1), Some(Day2)} }
    \cup { Recurring(None, None, r, Time2, Time3, None, None) : r \in Rules }
    \cup { Recurring(s, Some([key |-> "TU101"]), Rule("weekly", None), Time2, Time1,
                     Some(Day2), Some(Day1)) :
        s \in {None, Some("algebra"), Some("constructor")} }

Items == SingleItems \cup RecurringItems

\* <<termStart, termEnd>>: either bound absent, and termEnd before, on and
\* after termStart
TermBounds ==
    ({None} \X {None, Some(Day1)})
    \cup ({Some(Day2)} \X {None, Some(Day1), Some(Day2), Some(Day3)})

Schedule(termStart, termEnd, series, items) ==
    [timeZone |-> "Atlantic/Canary", termStart |-> termStart, termEnd |-> termEnd,
     series |-> series, items |-> items]

(***************************************************************************)
(* The state machine.                                                      *)
(***************************************************************************)
NoOutcome == [status |-> "none", issues |-> <<>>]
NoProbe == [kind |-> "none"]
NoExpansion == [status |-> "none", errors |-> <<>>, instances |-> <<>>]

\* Deferred.make(), and its completions: the first one decides, a later one
\* leaves the Deferred as it is.
Pending == [state |-> "pending", value |-> ""]
Succeeded(code) == [state |-> "succeeded", value |-> code]
Failed(message) == [state |-> "failed", value |-> message]
NoReply == [status |-> 0, body |-> ""]
ReplyOAuthError == [status |-> 400, body |-> "OAuth error. You can close this window."]
ReplyMissingCode == [status |-> 400, body |-> "Missing code"]
ReplyComplete == [status |-> 200, body |-> "Authentication complete. You can close this window."]

\* nothing extracted, validated, probed or expanded yet
InitCore ==
    /\ pc = "idle"
    /\ doc = <<>>
    /\ val = <<>>
    /\ ctx = <<>>
    /\ outcome = NoOutcome
    /\ rewrote = None
    /\ probe = NoProbe
    /\ expansion = NoExpansion
    /\ prior = None

\* the program with the token in hand, about to read the document: one
\* callback brought the code and got the success page
Init ==
    /\ InitCore
    /\ deferred = Succeeded("code1")
    /\ program = [at |-> "token", token |-> Some("code1")]
    /\ inflight = {}
    /\ reply = ReplyComplete
    /\ twin = [deferred |-> Succeeded("code1"), reply |-> ReplyComplete]

\* generateObject({schema: Schedule}): the extracted object is run through
\* the schema; the refinement is one synchronous pass.
Validate(s) ==
    /\ pc = "idle"
    /\ LET r == SuperRefine(s) IN
         /\ doc' = s
         /\ val' = RefinedValue(s)
         /\ ctx' = r.ctx
         /\ outcome' = Outcome(r)
    /\ pc' = "validated"
    /\ UNCHANGED <<rewrote, probe, expansion, prior, authVars>>

\* An accepted Schedule with one bound item's variant.key rewritten is
\* validated again.
WithVariantKey(s, k, key) ==
    [s EXCEPT !.items[k].variant = Some([Get(@) EXCEPT !.key = key])]

Revalidate(k, key) ==
    /\ pc = "validated"
    /\ outcome.status = "accepted"
    /\ rewrote = None
    /\ k \in 1..Len(val.items)
    /\ IsSome(val.items[k].seriesId) /\ IsSome(val.items[k].variant)
    /\ LET s == WithVariantKey(val, k, key)
           r == SuperRefine(s) IN
         /\ doc' = s
         /\ val' = RefinedValue(s)
         /\ ctx' = r.ctx
         /\ outcome' = Outcome(r)
    /\ rewrote' = Some(k)
    /\ UNCHANGED <<pc, probe, expansion, prior, authVars>>

\* The program goes on with the object only when extractFromBytes succeeded.
\* The guard-less variant: the object is used whatever the schema said.
UseScheduleUnchecked ==
    /\ pc = "validated"
    /\ pc' = "used"
    /\ UNCHANGED <<doc, val, ctx, outcome, rewrote, probe, expansion, prior, authVars>>

UseSchedule ==
    /\ pc = "validated"
    /\ outcome.status = "accepted"
    /\ pc' = "used"
    /\ UNCHANGED <<doc, val, ctx, outcome, rewrote, probe, expansion, prior, authVars>>

\* A document the schema refuses (issues, or an exception in the refinement)
\* fails generateObject; the failure ends the program with that one error.
FailExtraction ==
    /\ pc = "validated"
    /\ outcome.status \in {"rejected", "threw"}
    /\ pc' = "failed"
    /\ UNCHANGED <<doc, val, ctx, outcome, rewrote, probe, expansion, prior, authVars>>

VariantKeys == {"PE101", "PA101", "TU101"}

\* Any document of the domain may come out of the extraction.
ExtractAndValidate ==
    /\ pc = "idle"
    /\ \E term \in TermBounds, reg \in Registries, n \in 0..MaxItems :
         \E its \in [1..n -> Items] : Validate(Schedule(term[1], term[2], reg, its))

RewriteVariantKey ==
    /\ pc = "validated"
    /\ \E k \in 1..MaxItems, key \in VariantKeys : Revalidate(k, key)

Next ==
    \/ ExtractAndValidate
    \/ RewriteVariantKey
    \/ UseSchedule
    \/ FailExtraction

Spec == Init /\ [][Next]_vars

(***************************************************************************)
(* Vocabulary of the claims: what the caller is told, and the rules of     *)
(* the data model stated on the document itself.                           *)
(***************************************************************************)
Validated == pc # "idle"
Reported == outcome.issues
Positions == 1..Len(val.items)

\* number of reported issues with exactly this path
Count(path) == Cardinality({j \in 1..Len(Reported) : Reported[j].path = path})

\* reported issues of the item at (1-based) position k
IssuesOfItem(k) ==
    {j \in 1..Len(Reported) :
        /\ Len(Reported[j].path) >= 2
        /\ Reported[j].path[1] = "items"
        /\ Reported[j].path[2] = k - 1}

Bound(it) == IsSome(it.seriesId) /\ IsSome(it.variant)
Registered(v, it) == Get(it.seriesId) \in DOMAIN v.series
KeyListed(v, it) ==
    \E n \in 1..Len(v.series[Get(it.seriesId)].variants) :
        v.series[Get(it.seriesId)].variants[n] = Get(it.variant).key

BindingViolated(v, it) ==
    \/ IsSome(it.seriesId) # IsSome(it.variant)
    \/ Bound(it) /\ ~Registered(v, it)
    \/ Bound(it) /\ Registered(v, it) /\ ~KeyListed(v, it)

TermViolated(v) ==
    IsSome(v.termStart) /\ IsSome(v.termEnd) /\ StrLess(Get(v.termEnd), Get(v.termStart))
EndTimeViolated(it) == ~StrLess(it.startTime, it.endTime)
EndOnViolated(it) ==
    IsSome(it.startOn) /\ IsSome(it.endOn) /\ StrLess(Get(it.endOn), Get(it.startOn))
WeekdaySetViolated(it) ==
    it.on.freq = "weekly" /\ (it.on.byWeekday = None \/ it.on.byWeekday = Some(<<>>))
EndViolated(it) == ~StrLess(it.start, it.end)

B2N(b) == IF b THEN 1 ELSE 0
Violations(v, it) ==
    B2N(BindingViolated(v, it))
    + (IF it.kind = "recurring"
       THEN B2N(EndTimeViolated(it)) + B2N(EndOnViolated(it)) + B2N(WeekdaySetViolated(it))
       ELSE B2N(EndViolated(it)))

\* C1: one pass reports, for every item, as many issues as the item violates
\* checks, whatever was found on the root or on earlier items.
C1_AllViolationsCollected ==
    Validated =>
        \A k \in Positions : Cardinality(IssuesOfItem(k)) = Violations(val, val.items[k])

\* C2: the issue list is ordered: term-bound issue first, then by item
\* position, and within an item binding, endTime, endOn, weekday set
\* (recurring) or binding, end (single).
Rank(path) ==
    IF path = <<"termEnd">> THEN <<0, 0>>
    ELSE LET leaf == path[Len(path)] IN
         <<path[2] + 1,
           IF Len(path) = 4 /\ leaf = "key" THEN 1
           ELSE IF leaf \in {"seriesId", "variant"} THEN 1
           ELSE IF leaf \in {"endTime", "end"} THEN 2
           ELSE IF leaf = "endOn" THEN 3
           ELSE 4>>

RankLess(a, b) == a[1] < b[1] \/ (a[1] = b[1] /\ a[2] < b[2])

Ordered(list) ==
    \A p, q \in 1..Len(list) : p < q => RankLess(Rank(list[p].path), Rank(list[q].path))

C2_IssuesOrdered == Ordered(ctx) /\ Ordered(Reported)

C2_Witness ==
    /\ outcome.status = "rejected"
    /\ Reported[1].path = <<"termEnd">>
    /\ \E k, m \in Positions :
         /\ k < m
         /\ Cardinality(IssuesOfItem(k)) = 4
         /\ Cardinality(IssuesOfItem(m)) = 2
         /\ val.items[m].kind = "single"

\* C3: the outcome is acceptance or a non-empty issue list, and a Schedule
\* is accepted exactly when the term bounds and every item's binding and
\* per-kind rules hold.
C3_AcceptedIffConsistent ==
    Validated =>
        /\ outcome.status \in {"accepted", "rejected"}
        /\ outcome.status = "rejected" => Len(Reported) > 0
        /\ outcome.status = "accepted" <=>
             /\ ~TermViolated(val)
             /\ \A k \in Positions : Violations(val, val.items[k]) = 0

\* C4: the term-bound check reports exactly one issue at termEnd when both
\* bounds are present and termEnd < termStart, and none otherwise, whatever
\* the number of items.
C4_TermBoundOnce ==
    Validated => Count(<<"termEnd">>) = B2N(TermViolated(val))

\* C5: an item carrying exactly one of seriesId and variant gets one issue
\* whose path names the missing member; an item carrying neither gets no
\* binding issue.
BindingIssueCount(k) ==
    Count(<<"items", k - 1, "seriesId">>) + Count(<<"items", k - 1, "variant">>)
    + Count(<<"items", k - 1, "variant", "key">>)

C5_BothOrNeither ==
    Validated =>
        \A k \in Positions :
            LET it == val.items[k] IN
            /\ (IsSome(it.seriesId) /\ ~IsSome(it.variant)) =>
                  /\ outcome.status = "rejected"
                  /\ Count(<<"items", k - 1, "variant">>) = 1
                  /\ BindingIssueCount(k) = 1
            /\ (~IsSome(it.seriesId) /\ IsSome(it.variant)) =>
                  /\ outcome.status = "rejected"
                  /\ Count(<<"items", k - 1, "seriesId">>) = 1
                  /\ BindingIssueCount(k) = 1
            /\ (~IsSome(it.seriesId) /\ ~IsSome(it.variant)) => BindingIssueCount(k) = 0

\* C6: an item carrying both seriesId and variant whose seriesId is not a
\* key of the registry makes validation fail with the unknown-series issue
\* at items[i].seriesId, for every such string.
C6_UnknownSeriesReported ==
    Validated =>
        \A k \in Positions :
            (Bound(val.items[k]) /\ ~Registered(val, val.items[k])) =>
                /\ outcome.status = "rejected"
                /\ \E j \in 1..Len(Reported) :
                     Reported[j] = Issue(<<"items", k - 1, "seriesId">>, MsgSeries)

\* C7: in an accepted Schedule every bound item's variant.key is listed by
\* its series; rewriting a bound item's variant.key of an accepted Schedule
\* to a token the series does not list makes validation fail with an issue
\* at items[i].variant.key.
C7_BindingIntegrity ==
    /\ (Validated /\ outcome.status = "accepted") =>
          \A k \in Positions :
              Bound(val.items[k]) => Registered(val, val.items[k]) /\ KeyListed(val, val.items[k])
    /\ \A k \in 1..MaxItems :
          (rewrote = Some(k) /\ Registered(val, val.items[k]) /\ ~KeyListed(val, val.items[k])) =>
              /\ outcome.status = "rejected"
              /\ Count(<<"items", k - 1, "variant", "key">>) = 1

C7_Witness ==
    /\ rewrote # None
    /\ outcome.status = "rejected"
    /\ Count(<<"items", Get(rewrote) - 1, "variant", "key">>) = 1

\* C8: an item whose seriesId is a registry key and whose variant.key is one
\* of that series' variants gets no issue at seriesId, variant or variant.key.
C8_ValidBindingPasses ==
    Validated =>
        \A k \in Positions :
            LET it == val.items[k] IN
            (Bound(it) /\ Registered(val, it) /\ KeyListed(val, it)) => BindingIssueCount(k) = 0

\* C9: a recurring item with endTime <= startTime is rejected with an issue
\* at its endTime path and the Schedule is not processed further; with
\* endTime after startTime there is no such issue.
C9_EndTimeRejected ==
    Validated =>
        \A k \in Positions :
            LET it == val.items[k] IN
            it.kind = "recurring" =>
                /\ EndTimeViolated(it) =>
                      /\ outcome.status = "rejected"
                      /\ Count(<<"items", k - 1, "endTime">>) = 1
                      /\ pc # "used"
                /\ ~EndTimeViolated(it) => Count(<<"items", k - 1, "endTime">>) = 0

\* C10: a recurring item with startOn and endOn both present and
\* endOn < startOn is rejected with an issue at items[i].endOn; endOn equal
\* to startOn, or an absent bound, gives no date-bound issue.
C10_EndOnRejected ==
    Validated =>
        \A k \in Positions :
            LET it == val.items[k] IN
            it.kind = "recurring" =>
                /\ EndOnViolated(it) =>
                      /\ outcome.status = "rejected"
                      /\ Count(<<"items", k - 1, "endOn">>) = 1
                /\ ~EndOnViolated(it) => Count(<<"items", k - 1, "endOn">>) = 0

\* C11: no accepted Schedule holds a weekly recurrence without weekdays: such
\* an item is rejected with an issue at its weekday-set path; a recurrence of
\* another frequency needs no weekday set.
C11_WeeklyNeedsWeekdays ==
    Validated =>
        \A k \in Positions :
            LET it == val.items[k] IN
            it.kind = "recurring" =>
                /\ WeekdaySetViolated(it) =>
                      /\ outcome.status = "rejected"
                      /\ Count(<<"items", k - 1, "on", "byWeekday">>) = 1
                /\ ~WeekdaySetViolated(it) => Count(<<"items", k - 1, "on", "byWeekday">>) = 0

\* C14: a validation run, accepted or not, leaves the term bounds, the
\* registry and every item of its input as they were.
C14_InputUnchanged ==
    Validated =>
        /\ val.termStart = doc.termStart /\ val.termEnd = doc.termEnd
        /\ val.series = doc.series
        /\ val.items = doc.items

C14_Witness ==
    /\ Validated
    /\ outcome.status = "rejected"
    /\ Len(doc.items) = MaxItems
    /\ doc.series # EmptyRegistry
    /\ IsSome(doc.termEnd)

\* C17: the schedule is used only after validation of that same value has
\* succeeded, and a failed validation ends the run with its one error,
\* never with a use.
C17_UsedOnlyIfAccepted ==
    /\ pc = "used" => (outcome.status = "accepted" /\ Outcome(SuperRefine(val)).status = "accepted")
    /\ pc = "failed" => outcome.status \in {"rejected", "threw"}
    /\ (pc = "validated" /\ outcome.status \in {"rejected", "threw"}) => ~ENABLED UseSchedule

C17_Witness == pc = "failed" /\ Len(Reported) >= 3

\* binding issues (pair mismatch, unknown series, unknown variant key) that
\* a list of issues holds for the item at position k
BindingIssuesIn(list, k) ==
    {j \in 1..Len(list) :
        /\ list[j].message \in {MsgPair, MsgSeries, MsgVariant}
        /\ Len(list[j].path) >= 2 /\ list[j].path[2] = k - 1}
KeyIssuesIn(list, k) ==
    {j \in 1..Len(list) : list[j].path = <<"items", k - 1, "variant", "key">>}

\* C23: an item gets at most one binding issue (pair mismatch, unknown
\* series and unknown variant key exclude each other), and an item whose
\* seriesId is not in the registry never gets the variant-key issue.
C23_OneBindingIssue ==
    Validated =>
        \A k \in Positions :
            /\ Cardinality(BindingIssuesIn(ctx, k)) <= 1
            /\ Cardinality(BindingIssuesIn(Reported, k)) <= 1
            /\ BindingIssueCount(k) = Cardinality(BindingIssuesIn(Reported, k))
            /\ (Bound(val.items[k]) /\ ~Registered(val, val.items[k])) =>
                   (KeyIssuesIn(ctx, k) = {} /\ KeyIssuesIn(Reported, k) = {})

C23_Witness ==
    /\ outcome.status = "rejected"
    /\ Len(val.items) >= 2
    /\ val.series # EmptyRegistry
    /\ \E k \in Positions :
         /\ Bound(val.items[k]) /\ ~Registered(val, val.items[k])
         /\ Count(<<"items", k - 1, "seriesId">>) = 1
         /\ Reported[CHOOSE j \in BindingIssuesIn(Reported, k) : TRUE].message = MsgSeries
    /\ \E k \in Positions :
         /\ IsSome(val.items[k].seriesId) /\ ~IsSome(val.items[k].variant)
         /\ Count(<<"items", k - 1, "variant">>) = 1

(***************************************************************************)
(* The primitive schemas: z.string().regex(...) on code-unit sequences.    *)
(* \d is one of the ten ASCII digits; ^ and $ anchor the whole string.     *)
(***************************************************************************)
IsDigit(c) == c \in 48..57
DigitsAt(str, ps) == \A p \in ps : IsDigit(str[p])

\* /^\d{4}-\d{2}-\d{2}$/
MatchesIsoDate(str) ==
    /\ Len(str) = 10
    /\ DigitsAt(str, {1, 2, 3, 4, 6, 7, 9, 10})
    /\ str[5] = 45 /\ str[8] = 45

\* /^\d{2}:\d{2}:\d{2}$/
MatchesIsoTime(str) ==
    /\ Len(str) = 8
    /\ DigitsAt(str, {1, 2, 4, 5, 7, 8})
    /\ str[3] = 58 /\ str[6] = 58

\* /^\d{4}-\d{2}-\d{2}T\d{2}:\d{2}:\d{2}$/
MatchesLocalDateTime(str) ==
    /\ Len(str) = 19
    /\ MatchesIsoDate(SubSeq(str, 1, 10))
    /\ str[11] = 84
    /\ MatchesIsoTime(SubSeq(str, 12, 19))

(***************************************************************************)
(* Strings tried on the primitive schemas.                                 *)
(***************************************************************************)
ProbeYears == {2024, 2025}
ProbeMonths == {0, 1, 2, 4, 12, 13}
ProbeDays == {0, 1, 28, 29, 30, 31, 32}
ProbeHours == {0, 9, 23, 24, 99}
ProbeMinutes == {0, 59, 60}

\* "2025-9-9", "2025/09/09", "2025-09-09\n", "20250909", "2025-09-0x"
MalformedDates ==
    { <<50, 48, 50, 53, 45, 57, 45, 57>>,
      <<50, 48, 50, 53, 47, 48, 57, 47, 48, 57>>,
      DateStr(2025, 9, 9) \o <<10>>,
      <<50, 48, 50, 53, 48, 57, 48, 57>>,
      <<50, 48, 50, 53, 45, 48, 57, 45, 48, 120>> }

\* "9:00:00", "09:00", "09:00:00Z", "09:00:00.5", "09-00-00"
MalformedTimes ==
    { <<57, 58, 48, 48, 58, 48, 48>>,
      <<48, 57, 58, 48, 48>>,
      TimeStr(9, 0, 0) \o <<90>>,
      TimeStr(9, 0, 0) \o <<46, 53>>,
      <<48, 57, 45, 48, 48, 45, 48, 48>> }

DateProbes ==
    {DateStr(y, m, d) : y \in ProbeYears, m \in ProbeMonths, d \in ProbeDays}
    \cup MalformedDates

TimeProbes ==
    {TimeStr(h, m, sec) : h \in ProbeHours, m \in ProbeMinutes, sec \in ProbeMinutes}
    \cup MalformedTimes

\* local datetimes of two consecutive days, in and out of the clock's range
DateTimeProbes ==
    {DateTimeStr(d, t) :
        d \in {Day1, Day2},
        t \in {TimeStr(0, 0, 0), TimeStr(9, 0, 0), TimeStr(9, 0, 60), TimeStr(9, 1, 0),
               TimeStr(23, 59, 59), TimeStr(24, 0, 0)}}

\* IsoDate.safeParse(str)
ParseIsoDate(str) ==
    /\ probe = NoProbe
    /\ probe' = [kind |-> "date", input |-> str, accepted |-> MatchesIsoDate(str)]
    /\ UNCHANGED <<validatorVars, expansion, prior, authVars>>

\* IsoTime.safeParse(str)
ParseIsoTime(str) ==
    /\ probe = NoProbe
    /\ probe' = [kind |-> "time", input |-> str, accepted |-> MatchesIsoTime(str)]
    /\ UNCHANGED <<validatorVars, expansion, prior, authVars>>

\* The single-item check of the refinement on a shape-valid unbound item.
CheckSingle(start, end) ==
    /\ probe = NoProbe
    /\ MatchesLocalDateTime(start) /\ MatchesLocalDateTime(end)
    /\ probe' = [kind |-> "single", start |-> start, end |-> end,
                 issues |-> SingleIssues(0, Single(None, None, start, end))]
    /\ UNCHANGED <<validatorVars, expansion, prior, authVars>>

NextPrimitive ==
    \/ \E str \in DateProbes : ParseIsoDate(str)
    \/ \E str \in TimeProbes : ParseIsoTime(str)
    \/ \E start \in DateTimeProbes, end \in DateTimeProbes : CheckSingle(start, end)

SpecPrimitive == Init /\ [][NextPrimitive]_vars

(***************************************************************************)
(* Calendar and clock, for the statements about real dates and times.      *)
(***************************************************************************)
Num2(str, p) == (str[p] - 48) * 10 + (str[p + 1] - 48)
Num4(str, p) == Num2(str, p) * 100 + Num2(str, p + 2)

IsLeapYear(y) == (y % 4 = 0 /\ y % 100 # 0) \/ y % 400 = 0
DaysInMonth(y, m) ==
    IF m = 2 THEN (IF IsLeapYear(y) THEN 29 ELSE 28)
    ELSE IF m \in {4, 6, 9, 11} THEN 30 ELSE 31

\* the string is YYYY-MM-DD and names a day of the calendar
IsCalendarDate(str) ==
    /\ Len(str) = 10
    /\ \A p \in 1..10 : IF p \in {5, 8} THEN str[p] = 45 ELSE str[p] \in 48..57
    /\ Num2(str, 6) \in 1..12
    /\ Num2(str, 9) \in 1..DaysInMonth(Num4(str, 1), Num2(str, 6))

\* the string is HH:MM:SS and names a time of the 24-hour clock
IsClockTime(str) ==
    /\ Len(str) = 8
    /\ \A p \in 1..8 : IF p \in {3, 6} THEN str[p] = 58 ELSE str[p] \in 48..57
    /\ Num2(str, 1) \in 0..23
    /\ Num2(str, 4) \in 0..59
    /\ Num2(str, 7) \in 0..59

\* the calendar date y-m-d as a count of days (consecutive dates differ by 1)
RECURSIVE DaysBeforeMonth(_, _)
DaysBeforeMonth(y, m) == IF m = 1 THEN 0 ELSE DaysBeforeMonth(y, m - 1) + DaysInMonth(y, m - 1)
DayNumber(y, m, d) ==
    365 * y + ((y - 1) \div 4) - ((y - 1) \div 100) + ((y - 1) \div 400) + DaysBeforeMonth(y, m) + d

\* seconds from 2000-01-01T00:00:00 to a local datetime string: the days of
\* its date, plus the hours, minutes and seconds the clock part counts
Chrono(str) ==
    (DayNumber(Num4(str, 1), Num2(str, 6), Num2(str, 9)) - DayNumber(2000, 1, 1)) * 86400
    + Num2(str, 12) * 3600 + Num2(str, 15) * 60 + Num2(str, 18)

\* C12: a single item passes only if end is lexically after start, end <=
\* start gives the issue at items[i].end, and on the timestamps the schema
\* accepts the lexical order is the chronological one.
C12_SingleLexicalIsChronological ==
    probe.kind = "single" =>
        /\ probe.issues = (IF StrLess(probe.start, probe.end) THEN <<>>
                           ELSE <<Issue(<<"items", 0, "end">>, MsgEnd)>>)
        /\ StrLess(probe.start, probe.end) <=> Chrono(probe.start) < Chrono(probe.end)

\* C15: the date schema accepts exactly the real calendar dates written
\* YYYY-MM-DD, the time schema exactly the real clock times written HH:MM:SS.
C15_PrimitivesStrict ==
    /\ probe.kind = "date" => (probe.accepted <=> IsCalendarDate(probe.input))
    /\ probe.kind = "time" => (probe.accepted <=> IsClockTime(probe.input))

(***************************************************************************)
(* The occurrence expansion engine (spec section 4.5).  The repository     *)
(* declares the EventInstance shape only; the engine below follows the     *)
(* specification's algorithm on the rule shapes of its data model.         *)
(***************************************************************************)
DateOfStr(str) == [y |-> Num4(str, 1), m |-> Num2(str, 6), d |-> Num2(str, 9)]
DayNumberOf(str) == LET c == DateOfStr(str) IN DayNumber(c.y, c.m, c.d)

\* the calendar date after str
NextDay(str) ==
    LET c == DateOfStr(str) IN
      IF c.d < DaysInMonth(c.y, c.m) THEN DateStr(c.y, c.m, c.d + 1)
      ELSE IF c.m < 12 THEN DateStr(c.y, c.m + 1, 1)
      ELSE DateStr(c.y + 1, 1, 1)

\* the dates lo, lo+1, ..., hi in ascending order (none if hi < lo)
RECURSIVE DatesBetween(_, _)
DatesBetween(lo, hi) ==
    IF StrLess(hi, lo) THEN <<>> ELSE <<lo>> \o DatesBetween(NextDay(lo), hi)

\* weekday code of a calendar date; 0001-01-01 is a Monday
WeekdayCodes == <<"MO", "TU", "WE", "TH", "FR", "SA", "SU">>
WeekdayIndex(str) == (DayNumberOf(str) - DayNumber(1, 1, 1)) % 7
WeekdayOf(str) == WeekdayCodes[WeekdayIndex(str) + 1]

\* calendar weeks (Monday to Sunday) between the week of lo and the week of str
WeekOffset(lo, str) ==
    ((DayNumberOf(str) - WeekdayIndex(str)) - (DayNumberOf(lo) - WeekdayIndex(lo))) \div 7

\* effective window of a recurring item:
\* [startOn ?? termStart, endOn ?? (recurrence.until ?? termEnd)]
LowerBound(v, item) == IF IsSome(item.startOn) THEN item.startOn ELSE v.termStart
UpperBoundNoUntil(v, item) == IF IsSome(item.endOn) THEN item.endOn ELSE v.termEnd
UpperBound(v, item) ==
    IF IsSome(item.endOn) THEN item.endOn
    ELSE IF IsSome(item.on.until) THEN item.on.until
    ELSE v.termEnd

SelfBounding(rule) == rule.freq = "xDays"

\* no usable upper bound for a rule that is not self-bounding
Unbounded(v, item) ==
    /\ item.kind = "recurring"
    /\ ~SelfBounding(item.on)
    /\ ~IsSome(UpperBound(v, item))

Interval(rule) == IF IsSome(rule.interval) THEN Get(rule.interval) ELSE 1

\* candidate dates of a recurring item, ascending
DailyDates(lo, hi, n) ==
    LET Keep(d) == (DayNumberOf(d) - DayNumberOf(lo)) % n = 0
    IN SelectSeq(DatesBetween(lo, hi), Keep)
WeeklyDatesEveryDay(lo, hi, n, days) == DatesBetween(lo, hi)
WeeklyDates(lo, hi, n, days) ==
    LET Keep(d) == Includes(days, WeekdayOf(d)) /\ WeekOffset(lo, d) % n = 0
    IN SelectSeq(DatesBetween(lo, hi), Keep)
\* the listed dates in ascending order, each once
RECURSIVE InsertDate(_, _)
InsertDate(d, sorted) ==
    IF sorted = <<>> THEN <<d>>
    ELSE IF d = Head(sorted) THEN sorted
    ELSE IF StrLess(d, Head(sorted)) THEN <<d>> \o sorted
    ELSE <<Head(sorted)>> \o InsertDate(d, Tail(sorted))
ListedDatesAsGiven(dates) == dates
RECURSIVE ListedDates(_)
ListedDates(dates) ==
    IF dates = <<>> THEN <<>> ELSE InsertDate(Head(dates), ListedDates(Tail(dates)))

CandidateDates(v, item) ==
    LET rule == item.on
        lo == Get(LowerBound(v, item))
        hi == Get(UpperBound(v, item)) IN
      IF rule.freq = "xDays" THEN ListedDates(rule.dates)
      ELSE IF rule.freq = "daily" THEN DailyDates(lo, hi, Interval(rule))
      ELSE IF rule.freq = "weekly" THEN WeeklyDates(lo, hi, Interval(rule), Get(rule.byWeekday))
      ELSE <<>>

\* step 1: a date in the exclusion set, or whose override cancels, is dropped
Cancelled(item, d) == d \in DOMAIN item.overrides /\ item.overrides[d].cancel
DroppedExcludeOnly(item, d) == Includes(item.exclude, d)
Dropped(item, d) == Includes(item.exclude, d) \/ Cancelled(item, d)

\* step 2: the base times, patched by the present fields of the override
Patched(item, d) ==
    LET o == IF d \in DOMAIN item.overrides THEN item.overrides[d]
             ELSE [cancel |-> FALSE, start |-> None, end |-> None] IN
      [startTime |-> IF IsSome(o.start) THEN Get(o.start) ELSE item.startTime,
       endTime |-> IF IsSome(o.end) THEN Get(o.end) ELSE item.endTime]

\* step 3: d, "T", and the time cut to whole minutes: HH:MM:00
Materialize(d, time) == d \o <<84>> \o SubSeq(time, 1, 5) \o <<58, 48, 48>>

\* step 4: one EventInstance; item is the position in the source list
Instance(i, d, start, end) ==
    [item |-> i, date |-> d, startDateTimeLocal |-> start, endDateTimeLocal |-> end]

RecurringInstances(v, i, item) ==
    LET dates == CandidateDates(v, item)
        Keep(d) == ~Dropped(item, d)
        kept == SelectSeq(dates, Keep) IN
      [k \in 1..Len(kept) |->
          LET t == Patched(item, kept[k]) IN
            Instance(i, kept[k], Materialize(kept[k], t.startTime),
                     Materialize(kept[k], t.endTime))]

SingleInstance(i, item) ==
    <<Instance(i, SubSeq(item.start, 1, 10),
               Materialize(SubSeq(item.start, 1, 10), SubSeq(item.start, 12, 19)),
               Materialize(SubSeq(item.end, 1, 10), SubSeq(item.end, 12, 19)))>>

ItemInstances(v, i, item) ==
    IF item.kind = "single" THEN SingleInstance(i, item) ELSE RecurringInstances(v, i, item)

\* item-scoped errors of the whole list, in item order
RECURSIVE ExpansionErrors(_, _)
ExpansionErrors(v, k) ==
    IF k > Len(v.items) THEN <<>>
    ELSE (IF Unbounded(v, v.items[k])
          THEN <<[item |-> k - 1, kind |-> "UnboundedRecurrence"]>> ELSE <<>>)
         \o ExpansionErrors(v, k + 1)

\* instances of the items at positions k.. that come before the first failing item
RECURSIVE InstancesUntilError(_, _)
InstancesUntilError(v, k) ==
    IF k > Len(v.items) \/ Unbounded(v, v.items[k]) THEN <<>>
    ELSE ItemInstances(v, k - 1, v.items[k]) \o InstancesUntilError(v, k + 1)

ExpandSchedulePartial(v) ==
    LET errs == ExpansionErrors(v, 1) IN
      [status |-> IF errs = <<>> THEN "ok" ELSE "failed",
       errors |-> errs, instances |-> InstancesUntilError(v, 1)]

\* the whole expansion either succeeds with every instance or fails with none
ExpandSchedule(v) ==
    LET errs == ExpansionErrors(v, 1) IN
      IF errs = <<>>
      THEN [status |-> "ok", errors |-> <<>>, instances |-> InstancesUntilError(v, 1)]
      ELSE [status |-> "failed", errors |-> errs, instances |-> <<>>]

(***************************************************************************)
(* Documents handed to the engine: one term, and items that pass the       *)
(* cross-field checks, with every source of a window bound, an exclusion,  *)
(* a cancellation and a patching override.                                 *)
(***************************************************************************)
Day4 == DateStr(2025, 9, 12)
Day5 == DateStr(2025, 9, 14)
Day6 == DateStr(2025, 9, 16)
Time4 == TimeStr(11, 0, 0)

RuleOf(freq, byWeekday, interval, until, dates) ==
    [freq |-> freq, byWeekday |-> byWeekday, interval |-> interval,
     until |-> until, dates |-> dates]
DailyRule == RuleOf("daily", None, None, None, <<>>)

Cancel == [cancel |-> TRUE, start |-> None, end |-> None]
Patch(start, end) == [cancel |-> FALSE, start |-> start, end |-> end]
NoOverrides == <<>>

RecurringOf(on, startTime, endTime, startOn, endOn, exclude, overrides) ==
    [kind |-> "recurring", seriesId |-> None, variant |-> None, on |-> on,
     startTime |-> startTime, endTime |-> endTime, startOn |-> startOn, endOn |-> endOn,
     exclude |-> exclude, overrides |-> overrides]

ExpandItems ==
    { Single(None, None, DateTimeStr(Day1, Time2), DateTimeStr(Day1, Time3)),
      RecurringOf(DailyRule, Time2, Time3, None, None, <<>>, NoOverrides),
      RecurringOf(RuleOf("daily", None, Some(2), None, <<>>), Time2, Time3,
                  Some(Day2), Some(Day5), <<>>, NoOverrides),
      RecurringOf(RuleOf("weekly", Some(<<"MO", "WE">>), None, None, <<>>), Time2, Time3,
                  None, None, <<>>, NoOverrides),
      RecurringOf(RuleOf("daily", None, None, Some(Day4), <<>>), Time2, Time3,
                  None, None, <<>>, NoOverrides),
      RecurringOf(RuleOf("xDays", None, None, None, <<Day2, Day4>>), Time2, Time3,
                  None, None, <<>>, NoOverrides),
      RecurringOf(DailyRule, Time2, Time3, None, None, <<Day2>>, NoOverrides),
      RecurringOf(DailyRule, Time2, Time3, None, None, <<>>,
                  Day2 :> Cancel @@ Day4 :> Patch(None, Some(Time4))),
      RecurringOf(DailyRule, Time2, Time3, None, None, <<>>,
                  Day2 :> Patch(Some(Time4), None)),
      RecurringOf(DailyRule, TimeStr(9, 0, 10), TimeStr(9, 0, 50), None, None, <<>>,
                  NoOverrides),
      RecurringOf(RuleOf("weekly", Some(<<"TU", "FR">>), Some(2), None, <<>>), Time2, Time3,
                  Some(Day1), None, <<>>, NoOverrides),
      RecurringOf(RuleOf("xDays", None, None, None, <<Day4, Day2, Day4>>), Time1, Time2,
                  None, None, <<>>, NoOverrides) }

\* the extraction step hands over a document whose term may lack its end
ExtractForExpansion ==
    /\ pc = "idle"
    /\ \E termEnd \in {None, Some(Day6)}, n \in 0..MaxItems :
         \E its \in [1..n -> ExpandItems] :
            Validate(Schedule(Some(Day1), termEnd, EmptyRegistry, its))

\* expand(validate(s)): only a validated Schedule is expanded
Expand ==
    /\ pc = "validated"
    /\ outcome.status = "accepted"
    /\ expansion = NoExpansion
    /\ expansion' = ExpandSchedule(val)
    /\ UNCHANGED <<validatorVars, probe, prior, authVars>>

\* validate-then-expand of the next version s of the document, remembering
\* the expansion of the version before and the date taken out of item k
ExpandNextVersion(s, k, d) ==
    /\ pc = "validated"
    /\ expansion.status = "ok"
    /\ prior = None
    /\ LET r == SuperRefine(s) IN
         /\ doc' = s
         /\ val' = RefinedValue(s)
         /\ ctx' = r.ctx
         /\ outcome' = Outcome(r)
         /\ expansion' = IF Outcome(r).status = "accepted"
                         THEN ExpandSchedule(RefinedValue(s)) ELSE NoExpansion
    /\ prior' = Some([expansion |-> expansion, item |-> k - 1, date |-> d])
    /\ UNCHANGED <<pc, rewrote, probe, authVars>>

GeneratedDates(k) ==
    {expansion.instances[j].date : j \in {n \in 1..Len(expansion.instances) :
                                             expansion.instances[n].item = k - 1}}

\* a generated date of a recurring item is added to its exclusion set
ExpandWithExcluded ==
    /\ expansion.status = "ok"
    /\ \E k \in 1..Len(val.items) :
         /\ val.items[k].kind = "recurring"
         /\ \E d \in GeneratedDates(k) :
              ExpandNextVersion([val EXCEPT !.items[k].exclude = Append(@, d)], k, d)

\* a generated date of a recurring item gets a cancelling override
ExpandWithCancelled ==
    /\ expansion.status = "ok"
    /\ \E k \in 1..Len(val.items) :
         /\ val.items[k].kind = "recurring"
         /\ \E d \in GeneratedDates(k) :
              ExpandNextVersion(
                [val EXCEPT !.items[k].overrides =
                    [e \in DOMAIN @ \cup {d} |-> IF e = d THEN Cancel ELSE @[e]]], k, d)

NextExpand == ExtractForExpansion \/ Expand \/ ExpandWithExcluded \/ ExpandWithCancelled

SpecExpand == Init /\ [][NextExpand]_vars

(***************************************************************************)
(* Vocabulary of the statements about expansion.                           *)
(***************************************************************************)
Emitted == expansion.instances
InstancesOfItem(k) == SelectSeq(Emitted, LAMBDA inst : inst.item = k - 1)
DatesOfItem(k) == [j \in 1..Len(InstancesOfItem(k)) |-> InstancesOfItem(k)[j].date]
ErrorsOfItem(k) ==
    {j \in 1..Len(expansion.errors) :
        expansion.errors[j] = [item |-> k - 1, kind |-> "UnboundedRecurrence"]}

\* the window the specification gives the item at position k
WindowLo(k) ==
    IF val.items[k].startOn # None THEN val.items[k].startOn ELSE val.termStart
WindowHi(k) ==
    IF val.items[k].endOn # None THEN val.items[k].endOn
    ELSE IF val.items[k].on.until # None THEN val.items[k].on.until
    ELSE val.termEnd

NeedsUpperBound(k) ==
    val.items[k].kind = "recurring" /\ val.items[k].on.freq \in {"daily", "weekly", "monthly"}
ExplicitDates(k) == val.items[k].kind = "recurring" /\ val.items[k].on.freq = "xDays"
PlainDaily(k) ==
    /\ val.items[k].kind = "recurring"
    /\ val.items[k].on = DailyRule
    /\ val.items[k].exclude = <<>> /\ val.items[k].overrides = NoOverrides

ExpansionRan == expansion.status \in {"ok", "failed"}

\* C16: every emitted instance of an accepted Schedule starts before it ends
\* (lexically), also when an override replaced its start or end time.
C16_InstanceStartBeforeEnd ==
    expansion.status = "ok" =>
        \A j \in 1..Len(Emitted) :
            StrLess(Emitted[j].startDateTimeLocal, Emitted[j].endDateTimeLocal)

C19_AllOrNothing ==
    ExpansionRan =>
        /\ (\E k \in Positions : NeedsUpperBound(k) /\ WindowHi(k) = None) =>
               (expansion.status = "failed" /\ Emitted = <<>>)
        /\ expansion.status = "failed" => (Emitted = <<>> /\ expansion.errors # <<>>)
        /\ expansion.status = "ok" =>
               /\ expansion.errors = <<>>
               /\ \A k \in Positions : NeedsUpperBound(k) => WindowHi(k) # None
               /\ \A k \in Positions : val.items[k].kind = "single" => Len(InstancesOfItem(k)) = 1

C19_Witness ==
    /\ expansion.status = "failed"
    /\ Len(val.items) >= 2
    /\ val.items[1].kind = "single"
    /\ NeedsUpperBound(2) /\ WindowHi(2) = None

\* C20: no instance lies on an excluded or cancelled date of its item, and
\* excluding or cancelling one generated date takes away that item's
\* instance(s) on that date and nothing else.
C20_ExcludedNeverEmitted ==
    /\ expansion.status = "ok" =>
         \A j \in 1..Len(Emitted) :
            LET it == val.items[Emitted[j].item + 1]
                d == Emitted[j].date IN
              it.kind = "recurring" =>
                 /\ \A n \in 1..Len(it.exclude) : it.exclude[n] # d
                 /\ d \in DOMAIN it.overrides => ~it.overrides[d].cancel
    /\ prior # None =>
         LET was == Get(prior).expansion.instances
             Stays(inst) == ~(inst.item = Get(prior).item /\ inst.date = Get(prior).date) IN
           /\ expansion.status = "ok"
           /\ Emitted = SelectSeq(was, Stays)
           /\ Len(Emitted) < Len(was)

C20_Witness ==
    /\ prior # None
    /\ Len(val.items) = MaxItems
    /\ Len(Emitted) >= 2
    /\ LET it == val.items[Get(prior).item + 1] IN
         /\ Get(prior).date \in DOMAIN it.overrides
         /\ it.overrides[Get(prior).date].cancel
         /\ it.exclude # <<>>

Weekly(k) == val.items[k].kind = "recurring" /\ val.items[k].on.freq = "weekly"
WeekdaySet(k) == {Get(val.items[k].on.byWeekday)[n] : n \in 1..Len(Get(val.items[k].on.byWeekday))}
WindowDates(k) ==
    {DatesBetween(Get(WindowLo(k)), Get(WindowHi(k)))[n] :
        n \in 1..Len(DatesBetween(Get(WindowLo(k)), Get(WindowHi(k))))}
NothingTakenOut(k) ==
    /\ val.items[k].exclude = <<>>
    /\ \A d \in DOMAIN val.items[k].overrides : ~val.items[k].overrides[d].cancel
EveryWeek(k) == val.items[k].on.interval \in {None, Some(1)}

\* C21: every instance of a weekly item lies on a weekday of its set and
\* inside its effective window; with interval 1 and nothing excluded or
\* cancelled, every date of the window on such a weekday has exactly one
\* instance.
C21_WeeklyOnItsWeekdays ==
    expansion.status = "ok" =>
        \A k \in Positions :
            Weekly(k) =>
                /\ \A j \in 1..Len(DatesOfItem(k)) :
                     /\ WeekdayOf(DatesOfItem(k)[j]) \in WeekdaySet(k)
                     /\ DatesOfItem(k)[j] \in WindowDates(k)
                /\ (EveryWeek(k) /\ NothingTakenOut(k)) =>
                     \A d \in WindowDates(k) :
                        WeekdayOf(d) \in WeekdaySet(k) =>
                           Cardinality({j \in 1..Len(DatesOfItem(k)) : DatesOfItem(k)[j] = d}) = 1

C21_Witness ==
    /\ expansion.status = "ok"
    /\ \E k \in Positions :
         /\ Weekly(k) /\ EveryWeek(k) /\ NothingTakenOut(k)
         /\ Len(DatesOfItem(k)) = 2
         /\ WeekdayOf(DatesOfItem(k)[1]) = "WE" /\ WeekdayOf(DatesOfItem(k)[2]) = "MO"
    /\ \E k \in Positions :
         /\ Weekly(k) /\ ~EveryWeek(k)
         /\ Len(DatesOfItem(k)) = 2
         /\ WeekdayOf(DatesOfItem(k)[1]) = "TU" /\ WeekdayOf(DatesOfItem(k)[2]) = "FR"

\* the fields of an EventInstance (the items here carry no id, title,
\* location or description, so date and the two datetimes are all of them)
EventValue(inst) ==
    [date |-> inst.date, startDateTimeLocal |-> inst.startDateTimeLocal,
     endDateTimeLocal |-> inst.endDateTimeLocal]

InItemOrder(p, q) ==
    /\ Emitted[p].item <= Emitted[q].item
    /\ Emitted[p].item = Emitted[q].item =>
          /\ StrLessEq(Emitted[p].date, Emitted[q].date)
          /\ Emitted[p].date = Emitted[q].date =>
                StrLessEq(Emitted[p].startDateTimeLocal, Emitted[q].startDateTimeLocal)

MaxInFlight == 2

DeferredFail(d, message) == IF d.state = "pending" THEN Failed(message) ELSE d
DeferredSucceedOverwriting(d, code) == Succeeded(code)
DeferredSucceed(d, code) == IF d.state = "pending" THEN Succeeded(code) ELSE d

\* url.searchParams.get(name): <<>> for null, <<str>> for a present parameter
CodeParams == {None, Some(""), Some("code1"), Some("code2")}
ErrorParams == {None, Some(""), Some("access_denied")}
StateParams == {"matching", "other", "missing"}
Requests == [code : CodeParams, error : ErrorParams, state : StateParams]

\* The handler with the code looked at before the error.
HandleCallbackCodeFirst(d, req) ==
    IF TruthyStr(req.code)
    THEN [deferred |-> DeferredSucceed(d, Get(req.code)), reply |-> ReplyComplete]
    ELSE IF TruthyStr(req.error)
    THEN [deferred |-> DeferredFail(d, Get(req.error)), reply |-> ReplyOAuthError]
    ELSE [deferred |-> d, reply |-> ReplyMissingCode]

\* The handler refusing a request whose state is not the one of the auth URL.
HandleCallbackCheckingState(d, req) ==
    IF req.state # "matching" THEN [deferred |-> d, reply |-> ReplyMissingCode]
    ELSE IF TruthyStr(req.error)
    THEN [deferred |-> DeferredFail(d, Get(req.error)), reply |-> ReplyOAuthError]
    ELSE IF ~TruthyStr(req.code)
    THEN [deferred |-> d, reply |-> ReplyMissingCode]
    ELSE [deferred |-> DeferredSucceed(d, Get(req.code)), reply |-> ReplyComplete]

\* GET /auth/google/callback: the deferred after the handler, and its response
HandleCallback(d, req) ==
    IF TruthyStr(req.error)
    THEN [deferred |-> DeferredFail(d, Get(req.error)), reply |-> ReplyOAuthError]
    ELSE IF ~TruthyStr(req.code)
    THEN [deferred |-> d, reply |-> ReplyMissingCode]
    ELSE [deferred |-> DeferredSucceed(d, Get(req.code)), reply |-> ReplyComplete]

\* the scope of the server is the program's: it is gone when the program ended
ProgramEnded == program.at = "authFailed" \/ pc \in {"used", "failed"}

\* Deferred.make() is pending; the program has not yet opened the auth URL
InitAuth ==
    /\ InitCore
    /\ deferred = Pending
    /\ program = [at |-> "start", token |-> None]
    /\ inflight = {}
    /\ reply = NoReply
    /\ twin = [deferred |-> Pending, reply |-> NoReply]

\* a callback request reaches the server
ReceiveCallback ==
    /\ ~ProgramEnded
    /\ Cardinality(inflight) < MaxInFlight
    /\ \E req \in Requests \ inflight : inflight' = inflight \cup {req}
    /\ UNCHANGED <<validatorVars, probe, expansion, prior, deferred, program, reply, twin>>

\* the handler runs for one received request; the second server handles the
\* same request with one of the other state parameters in its place
AnswerCallback ==
    /\ ~ProgramEnded
    /\ \E req \in inflight :
         /\ inflight' = inflight \ {req}
         /\ deferred' = HandleCallback(deferred, req).deferred
         /\ reply' = HandleCallback(deferred, req).reply
         /\ \E st \in StateParams \ {req.state} :
              twin' = HandleCallback(twin.deferred, [req EXCEPT !.state = st])
    /\ UNCHANGED <<validatorVars, probe, expansion, prior, program>>

\* getAuthURL, open(authURL.url), then Deferred.await(code)
OpenAuthUrl ==
    /\ program.at = "start"
    /\ program' = [program EXCEPT !.at = "awaiting"]
    /\ UNCHANGED <<validatorVars, probe, expansion, prior, deferred, inflight, reply, twin>>

\* Deferred.await returns without the Deferred being completed.
ResumeWithTokenUnawaited ==
    /\ program.at = "awaiting"
    /\ program' = [at |-> "token", token |-> Some(deferred.value)]
    /\ UNCHANGED <<validatorVars, probe, expansion, prior, deferred, inflight, reply, twin>>

\* Deferred.await resumes with the code of a succeeded Deferred
ResumeWithToken ==
    /\ program.at = "awaiting"
    /\ deferred.state = "succeeded"
    /\ program' = [at |-> "token", token |-> Some(deferred.value)]
    /\ UNCHANGED <<validatorVars, probe, expansion, prior, deferred, inflight, reply, twin>>

\* Deferred.await fails with the error of a failed Deferred: the program ends
ResumeWithFailure ==
    /\ program.at = "awaiting"
    /\ deferred.state = "failed"
    /\ program' = [at |-> "authFailed", token |-> None]
    /\ UNCHANGED <<validatorVars, probe, expansion, prior, deferred, inflight, reply, twin>>

\* fs.readFile and ocr.extractFromBytes, with the token logged before
AuthDocs ==
    { Schedule(Some(Day1), Some(Day3), EmptyRegistry, <<>>),
      Schedule(Some(Day3), Some(Day1), EmptyRegistry, <<>>) }
ReadAndExtract ==
    /\ program.at = "token"
    /\ \E s \in AuthDocs : Validate(s)

NextAuth ==
    \/ ReceiveCallback
    \/ AnswerCallback
    \/ OpenAuthUrl
    \/ ResumeWithToken
    \/ ResumeWithFailure
    \/ ReadAndExtract
    \/ UseSchedule
    \/ FailExtraction

SpecAuth == InitAuth /\ [][NextAuth]_vars

\* WF: the runtime runs the program's fiber whenever it can continue
SpecAuthFair ==
    /\ SpecAuth
    /\ WF_vars(OpenAuthUrl) /\ WF_vars(ResumeWithToken) /\ WF_vars(ResumeWithFailure)

\* C24 as claimed: a request with an error parameter fails the deferred with
\* that error and is answered 400, also when it carries a code; else one
\* without a code parameter is answered 400 'Missing code' and leaves the
\* deferred alone; else the deferred is succeeded with the code and the
\* success page is returned.
C24_CallbackOutcome ==
    [][\A req \in inflight :
          req \notin inflight' =>
             IF req.error # None
             THEN deferred' = Failed(Get(req.error)) /\ reply'.status = 400
             ELSE IF req.code = None
             THEN reply' = ReplyMissingCode /\ deferred' = deferred
             ELSE deferred' = Succeeded(Get(req.code)) /\ reply' = ReplyComplete]_vars

\* C24 as amended: the error and the code count only when non-empty, and
\* the deferred takes the outcome only while it is pending.
C24_CallbackOutcomeWhilePending ==
    [][\A req \in inflight :
          req \notin inflight' =>
             IF req.error # None /\ req.error # Some("")
             THEN /\ reply' = ReplyOAuthError
                  /\ deferred' = IF deferred = Pending THEN Failed(Get(req.error)) ELSE deferred
             ELSE IF req.code = None \/ req.code = Some("")
             THEN reply' = ReplyMissingCode /\ deferred' = deferred
             ELSE /\ reply' = ReplyComplete
                  /\ deferred' = IF deferred = Pending THEN Succeeded(Get(req.code))
                                 ELSE deferred]_vars

C24_Witness ==
    /\ deferred = Failed("access_denied")
    /\ reply = ReplyOAuthError
    /\ program.at = "awaiting"
    /\ inflight = {}

\* C25: once completed, the deferred keeps its outcome whatever callback is
\* handled later, and what the program got from the await is that outcome.
C25_CompletedAtMostOnce ==
    /\ [][deferred # Pending => deferred' = deferred]_vars
    /\ [](program.at = "token" => deferred = Succeeded(Get(program.token)))
    /\ [](program.at = "authFailed" => deferred.state = "failed")

C25_Witness ==
    /\ deferred = Succeeded("code1")
    /\ program.token = Some("code1")
    /\ reply = ReplyOAuthError
    /\ \E req \in inflight : req.code = Some("code2") /\ req.error = None

\* C26: extraction starts only with the code of a succeeded deferred; a
\* failed deferred ends the program without extraction; while the deferred
\* is pending the waiting program does not move.
C26_ExtractionOnlyAfterCode ==
    /\ [](pc # "idle" => (program.at = "token" /\ deferred = Succeeded(Get(program.token))))
    /\ [](deferred.state = "failed" => (pc = "idle" /\ program.at # "token"))
    /\ [][(program.at = "awaiting" /\ deferred = Pending) =>
             (program' = program /\ pc' = pc)]_vars
    /\ [][program.at = "authFailed" => (program' = program /\ pc' = pc)]_vars
    /\ (deferred.state = "failed" ~> program.at = "authFailed")

C26_Witness ==
    /\ pc = "validated"
    /\ program = [at |-> "token", token |-> Some("code2")]
    /\ reply = ReplyOAuthError
    /\ inflight # {}

\* C27: the same requests, each sent with another state parameter
\* (matching, other, missing), complete the deferred in the same way and get
\* the same responses.
C27_StateIgnored ==
    twin.deferred = deferred /\ twin.reply = reply

C27_Witness ==
    /\ deferred = Succeeded("code1")
    /\ reply = ReplyComplete
    /\ twin.reply = ReplyComplete
    /\ program.at = "token"

====
